---- MODULE Spec2Model ----
(***************************************************************************)
(* A model of limitd's network front-end (server.js): the LimitdServer     *)
(* constructor, start/stop, and the per-connection pipeline that _handler  *)
(* wires to every accepted socket.                                         *)
(*                                                                         *)
(* One action is one turn of the Node event loop: a call of the public API *)
(* (constructor, start, stop), or one callback (a bind result, a timer     *)
(* tick, a chunk read from a socket, a completed rate-limiter call, a      *)
(* socket error, a peer closing).  Everything a callback does              *)
(* synchronously, through the pipes included, is part of its action.       *)
(***************************************************************************)
EXTENDS Integers, Sequences, FiniteSets, TLC

\* ------------------------------------------------------------------ bounds
MaxFrames == 3      \* frames the clients send, all connections together
MaxStarts == 2      \* calls of start()
MaxStops  == 2      \* calls of stop()
MaxTicks  == 2      \* firings of the memory-sampling timer
PipeCapacity == 2   \* requests and responses the stages of one pipeline hold

\* -------------------------------------------------------- program constants
DefaultPort == 9231

Conns == {"A", "B"}

Undefined == "undefined"
NoError   == ""

VARIABLES
  ctor,          \* "none" | "ok" | "threw": the outcome of new LimitdServer(options)
  thrown,        \* the message of the error the constructor threw, or NoError
  options,       \* the options the constructor was called with
  config,        \* this._config
  validatorCalls,\* how many times validateConfig ran
  validatorArg,  \* what it was last called with
  configError,   \* what it returned
  created,       \* the collaborators the constructor created
  handle,        \* this._server's handle: "none" | "binding" | "listening"
  listeningCbs,  \* once('listening') listeners of this._server: start's callbacks
  closeCbs,      \* once('close') listeners of this._server: stop's callbacks
  closeTick,     \* the net.Server has a deferred emit of 'close' scheduled
  starts,        \* history: one record per start() call
  stopCalls,     \* history: the number of stop() calls
  stopMark,      \* history, per connection: frames sent before the last stop()
  emitted,       \* history: the notifications LimitdServer emitted, in order
  callbacks,     \* history: the invocations of start's done callback, in order
  samples,       \* history: the number of memory samples reported
  crashed,       \* an 'error' event found no listener: the process died
  sock,          \* per connection: "none" | "open" | "ended" | "closed"
  inbox,         \* per connection: frames sent by the client, not yet read
  sentLog,       \* history, per connection: was the k-th frame sent well-formed
  decoderPiped,  \* per connection: lps.decode() is still piped into the decoder
  inflight,      \* per connection: requests the handler holds, in arrival order
  completed,     \* history, per connection: decide calls in completion order
  written,       \* per connection: the frames written to the socket, in order
  log,           \* per connection: the debug entries logged
  proto,         \* per connection: the protocol name each stage was built with
  outbuf,        \* per connection: frames written that the client has not taken
  reading,       \* per connection: the client takes what is written to it
  stream,        \* one byte stream: the payloads a client frames and sends
  wire,          \* the bytes of that stream not yet delivered to the socket
  lpsState,      \* the state of lps.decode() between two chunks
  lpsOut         \* the payloads lps.decode() has pushed, in order

lifecycleVars == <<handle, listeningCbs, closeCbs, closeTick, starts, stopCalls, stopMark,
                   emitted, callbacks>>
ctorVars == <<ctor, thrown, options, config, validatorCalls, validatorArg,
              configError, created>>
connVars == <<sock, inbox, sentLog, decoderPiped, inflight, completed, written,
              log, proto>>
streamVars == <<stream, wire, lpsState, lpsOut>>
flowVars == <<outbuf, reading>>
vars == <<ctorVars, lifecycleVars, samples, crashed, connVars, flowVars, streamVars>>

\* ----------------------------------------------------------- configuration
ConfigKeys == {"port", "hostname", "log_level", "protocol", "db",
               "metrics_api_key"}

\* var defaults = { ... }
defaults ==
  [port |-> DefaultPort, hostname |-> "0.0.0.0", log_level |-> "info",
   protocol |-> "protocol-buffers"]

\* An options object: a key it does not have reads Undefined.
Options(db, key, protocol) ==
  [port |-> Undefined, hostname |-> Undefined, log_level |-> Undefined,
   protocol |-> protocol, db |-> db, metrics_api_key |-> key]

OptionSets ==
  { Options(db, key, p) : db \in {Undefined, "", "/db"},
                          key \in {Undefined, "k"},
                          p \in {Undefined, "json"} }

NoConfig == [Options(Undefined, Undefined, Undefined) EXCEPT !.port = 0]

Truthy(v) == v # Undefined /\ v # ""

\* _.extend({}, defaults, options): the keys of options override the defaults
Extend(defs, opts) ==
  [k \in ConfigKeys |->
     IF opts[k] # Undefined THEN opts[k]
     ELSE IF k \in DOMAIN defs THEN defs[k] ELSE Undefined]

\* if (!options.db)
DbMissing_never(opts) == FALSE

DbMissing(opts) == ~Truthy(opts.db)

\* The verdicts of validateConfig: no error, or an error message
ValidatorVerdicts == {NoError, "invalid port", "invalid protocol"}

\* if (configError)
ConfigRejected_never(e) == FALSE

ConfigRejected(e) == e # NoError

\* if (this._config.metrics_api_key)
MetricsTaskWanted_always(cfg) == TRUE

MetricsTaskWanted(cfg) == Truthy(cfg.metrics_api_key)

\* What the constructor has created once it returns
Collaborators(cfg) ==
  {"logger", "server", "db", "buckets", "agent"}
    \cup (IF MetricsTaskWanted(cfg) THEN {"timer"} ELSE {})

\* function LimitdServer (options)
Construct(opts, verdict) ==
  /\ ctor = "none"
  /\ options' = opts
  /\ IF DbMissing(opts)
     THEN /\ ctor' = "threw"
          /\ thrown' = "\"db\" is required"
          /\ UNCHANGED <<config, validatorCalls, validatorArg, configError, created>>
     ELSE LET cfg == Extend(defaults, opts) IN
          /\ config' = cfg
          /\ validatorCalls' = validatorCalls + 1
          /\ validatorArg' = cfg
          /\ configError' = verdict
          /\ IF ConfigRejected(verdict)
             THEN /\ ctor' = "threw"
                  /\ thrown' = verdict
                  /\ UNCHANGED created
             ELSE /\ ctor' = "ok"
                  /\ thrown' = NoError
                  /\ created' = Collaborators(cfg)
  /\ UNCHANGED <<streamVars, flowVars, lifecycleVars, samples, crashed, connVars>>

\* the callback of setInterval(..., 5000): one sample is three gauges
TimerTick ==
  /\ ~crashed
  /\ "timer" \in created
  /\ samples < MaxTicks
  /\ samples' = samples + 1
  /\ UNCHANGED <<streamVars, flowVars, ctorVars, lifecycleVars, crashed, connVars>>

\* ---------------------------------------------------------------- lifecycle
NoAddress == [host |-> "", port |-> 0]

\* this._server.address() while listening on (port, hostname)
Address(cfg) == [host |-> cfg.hostname, port |-> cfg.port]

Event(type, err, address) == [type |-> type, err |-> err, address |-> address]

ForwardServerError_twice(err) ==
  <<Event("error", err, NoAddress), Event("error", err, NoAddress)>>

\* The listener of this._server's 'error': self.emit('error', err)
ForwardServerError(err) == <<Event("error", err, NoAddress)>>

\* The function start() hands to listen(): what it emits and how it calls done.
\* net.Server registers it with once('listening'), so err is never set.
ListenCallback(err, done, address) ==
  IF err # NoError
  THEN [emits |-> <<Event("error", err, NoAddress)>>,
        calls |-> IF done THEN <<[err |-> err, address |-> NoAddress]>> ELSE <<>>]
  ELSE [emits |-> <<Event("started", NoError, address)>>,
        calls |-> IF done THEN <<[err |-> NoError, address |-> address]>> ELSE <<>>]

RECURSIVE RunListening(_, _)
\* emit('listening') on this._server: every registered callback runs, in order
RunListening(cbs, address) ==
  IF cbs = <<>> THEN [emits |-> <<>>, calls |-> <<>>]
  ELSE LET h == ListenCallback(NoError, Head(cbs), address)
           t == RunListening(Tail(cbs), address)
       IN [emits |-> h.emits \o t.emits, calls |-> h.calls \o t.calls]

Connections == {c \in Conns : sock[c] \in {"open", "ended"}}

\* LimitdServer.prototype.start
Start(done) ==
  /\ ~crashed
  /\ ctor = "ok"
  /\ handle = "none"
  /\ Len(starts) < MaxStarts
  /\ handle' = "binding"
  /\ listeningCbs' = Append(listeningCbs, done)
  /\ starts' = Append(starts, [done |-> done, result |-> "pending"])
  /\ UNCHANGED <<streamVars, flowVars, ctorVars, closeCbs, closeTick, stopCalls, stopMark, emitted, callbacks,
                 samples, crashed, connVars>>

\* the bind succeeded: this._server emits 'listening'
ListenOk ==
  /\ ~crashed
  /\ handle = "binding"
  /\ handle' = "listening"
  /\ LET r == RunListening(listeningCbs, Address(config)) IN
       /\ emitted' = emitted \o r.emits
       /\ callbacks' = callbacks \o r.calls
  /\ listeningCbs' = <<>>
  /\ starts' = [starts EXCEPT ![Len(starts)].result = "ok"]
  /\ UNCHANGED <<streamVars, flowVars, ctorVars, closeCbs, closeTick, stopCalls, stopMark, samples, crashed,
                 connVars>>

\* the bind failed: this._server emits 'error'; its 'listening' listeners stay
ListenFail ==
  /\ ~crashed
  /\ handle = "binding"
  /\ handle' = "none"
  /\ emitted' = emitted \o ForwardServerError("EADDRINUSE")
  /\ starts' = [starts EXCEPT ![Len(starts)].result = "fail"]
  /\ UNCHANGED <<streamVars, flowVars, ctorVars, listeningCbs, closeCbs, closeTick, stopCalls, stopMark,
                 callbacks, samples, crashed, connVars>>

\* stop() closes this._server only: the accepted sockets are left as they are
SockAfterStop_destroyAll(s) ==
  [c \in Conns |-> IF s[c] = "none" THEN "none" ELSE "closed"]

SockAfterStop(s) == s

\* close(callback): the callback joins the once('close') listeners
CloseListeners_none(n) == n

CloseListeners(n) == n + 1

\* LimitdServer.prototype.stop: this._server.close(callback)
Stop ==
  /\ ~crashed
  /\ ctor = "ok"
  /\ handle # "binding"
  /\ stopCalls < MaxStops
  /\ stopCalls' = stopCalls + 1
  /\ closeCbs' = CloseListeners(closeCbs)
  /\ handle' = "none"
  /\ closeTick' = (closeTick \/ Connections = {})
  /\ stopMark' = [c \in Conns |-> Len(sentLog[c])]
  /\ sock' = SockAfterStop(sock)
  /\ UNCHANGED <<streamVars, flowVars, ctorVars, listeningCbs, starts, emitted, callbacks, samples,
                 crashed, inbox, sentLog, decoderPiped, inflight, completed,
                 written, log, proto>>

RECURSIVE Repeat(_, _)
Repeat(e, n) == IF n = 0 THEN <<>> ELSE <<e>> \o Repeat(e, n - 1)

\* The function stop() hands to close(): self.emit('close')
CloseCallback == Event("close", NoError, NoAddress)

\* this._server emits 'close': no handle and no connection left
EmitClose ==
  /\ ~crashed
  /\ closeTick
  /\ closeTick' = FALSE
  /\ emitted' = emitted \o Repeat(CloseCallback, closeCbs)
  /\ closeCbs' = 0
  /\ UNCHANGED <<streamVars, flowVars, ctorVars, handle, listeningCbs, starts, stopCalls, stopMark, callbacks,
                 samples, crashed, connVars>>

\* ----------------------------------------------------------------- pipeline
\* A frame on the wire: [length][payload]
Frame(payload) == [len |-> Len(payload), payload |-> payload]

\* The payload of a well-formed request, and one no protocol decodes
RequestPayload(id) == <<1, id>>
MalformedPayload   == <<0>>

\* lps.decode(): the payload of a complete frame
LpsDecode(frame) == SubSeq(frame.payload, 1, frame.len)

\* The bytes of a frame on the wire: a one-byte length, then the payload
FrameBytes(frame) == <<frame.len>> \o frame.payload

RECURSIVE WireBytes(_)
WireBytes(payloads) ==
  IF payloads = <<>> THEN <<>>
  ELSE FrameBytes(Frame(Head(payloads))) \o WireBytes(Tail(payloads))

\* lps.decode() between chunks: the payload bytes the current frame still
\* misses (0: the next byte is a length) and those it has
LpsInit == [missing |-> 0, buf |-> <<>>]

RECURSIVE LpsWrite(_, _, _)
\* lps.decode() consumes a chunk byte by byte and pushes each payload as its
\* last byte arrives
LpsWrite(st, chunk, out) ==
  IF chunk = <<>> THEN [state |-> st, out |-> out]
  ELSE LET b == Head(chunk) IN
       IF st.missing = 0
       THEN LpsWrite([missing |-> b, buf |-> <<>>], Tail(chunk), out)
       ELSE IF st.missing = 1
       THEN LpsWrite(LpsInit, Tail(chunk), Append(out, Append(st.buf, b)))
       ELSE LpsWrite([missing |-> st.missing - 1, buf |-> Append(st.buf, b)],
                     Tail(chunk), out)

\* socket.pipe(lps.decode()): what a chunk read from the socket becomes
Deframe_none(st, chunk) == [state |-> st, out |-> <<chunk>>]

Deframe(st, chunk) == LpsWrite(st, chunk, <<>>)

\* The socket reads the next n bytes of the stream as one chunk
Segment(n) ==
  /\ n <= Len(wire)
  /\ LET r == Deframe(lpsState, SubSeq(wire, 1, n)) IN
       /\ lpsState' = r.state
       /\ lpsOut' = lpsOut \o r.out
  /\ wire' = SubSeq(wire, n + 1, Len(wire))
  /\ UNCHANGED <<ctorVars, lifecycleVars, samples, crashed, connVars, flowVars, stream>>

\* RequestDecoder: the Request of a payload, or an 'error'
DecodeRequest(payload) ==
  IF Len(payload) = 2 /\ payload[1] = 1
  THEN [ok |-> TRUE, id |-> payload[2]]
  ELSE [ok |-> FALSE, id |-> 0]

\* ResponseWriter, then lps_encode(): the frame of one response
EncodeResponse(r) == Frame(<<2, r.id, IF r.st = "ok" THEN 0 ELSE 1>>)

\* the request ids of the frames in a sequence of written frames
RECURSIVE Ids(_)
Ids(frames) ==
  IF frames = <<>> THEN <<>> ELSE <<Head(frames).payload[2]>> \o Ids(Tail(frames))

RECURSIVE DonePrefix(_)
\* RequestHandler: the responses it can push, in the order of the requests
DonePrefix(q) ==
  IF q = <<>> \/ Head(q).st = "pending" THEN <<>>
  ELSE <<Head(q)>> \o DonePrefix(Tail(q))

RECURSIVE EncodeAll(_)
EncodeAll(rs) ==
  IF rs = <<>> THEN <<>> ELSE <<EncodeResponse(Head(rs))>> \o EncodeAll(Tail(rs))

\* socket.on('error', ...) is registered: an 'error' of the socket is handled
SocketErrorHandled_no == FALSE

SocketErrorHandled == TRUE

\* The listener itself: it logs, and emits nothing on the server
OnSocketError_forward(err) ==
  [logs |-> {"connection error", err}, emits |-> <<Event("error", err, NoAddress)>>]

\* the entry logged carries err.code and err.message
OnSocketError(err) == [logs |-> {"connection error", err}, emits |-> <<>>]

\* decoder.on('error', ...): what becomes of the socket: socket.end()
OnDecoderError_noEnd(s) == s

OnDecoderError(s) == IF s = "open" THEN "ended" ELSE s

\* .pipe(socket): the socket the pipeline of connection c writes to
PipeDest_first(c) == "A"

PipeDest(c) == c

\* .pipe(ResponseWriter(...)): the handler's responses reach the writer
WriterPiped_no == FALSE

WriterPiped == TRUE

\* The net.Server's bookkeeping when sockets close: with no handle and no
\* connection left it schedules its 'close'
AfterSocketClose(newSock) ==
  closeTick' =
    (closeTick \/ (/\ handle = "none"
                   /\ Connections # {}
                   /\ {c \in Conns : newSock[c] \in {"open", "ended"}} = {}))

\* { protocol: this._config.protocol }: the protocol a stage is built with
StageProtocol_default(stage, cfg) ==
  IF stage = "writer" THEN defaults.protocol ELSE cfg.protocol

StageProtocol(stage, cfg) == cfg.protocol

\* the connection listener: LimitdServer.prototype._handler
Accept(c) ==
  /\ ~crashed
  /\ handle = "listening"
  /\ sock[c] = "none"
  /\ c = "B" => sock["A"] # "none"       \* connections are named as they arrive
  /\ sock' = [sock EXCEPT ![c] = "open"]
  /\ log' = [log EXCEPT ![c] = @ \cup {"connection accepted"}]
  /\ proto' = [proto EXCEPT ![c] =
                 [stage \in {"decoder", "handler", "writer"} |->
                    StageProtocol(stage, config)]]
  /\ decoderPiped' = [decoderPiped EXCEPT ![c] = TRUE]
  /\ UNCHANGED <<streamVars, flowVars, ctorVars, lifecycleVars, samples, crashed, inbox, sentLog,
                 inflight, completed, written>>

FramesSent == Len(sentLog["A"]) + Len(sentLog["B"])

\* The client of connection c sends its next frame, well-formed or not
ClientSend(c, wellFormed) ==
  /\ ~crashed
  /\ sock[c] \in {"open", "ended"}
  /\ FramesSent < MaxFrames
  /\ LET id == Len(sentLog[c]) + 1 IN
       inbox' = [inbox EXCEPT ![c] =
                   Append(@, Frame(IF wellFormed THEN RequestPayload(id)
                                   ELSE MalformedPayload))]
  /\ sentLog' = [sentLog EXCEPT ![c] = Append(@, wellFormed)]
  /\ UNCHANGED <<streamVars, flowVars, ctorVars, lifecycleVars, samples, crashed, sock, decoderPiped,
                 inflight, completed, written, log, proto>>

\* What the pipeline of connection c holds between the socket it reads and
\* the client: requests in the handler, responses the client has not taken
Held(c) == Len(inflight[c]) + outbuf[c]

\* _handler builds the stages anew for every socket: those whose load holds
\* back the reads of connection c
StageOwners_shared(c) == Conns

StageOwners(c) == {c}

RECURSIVE SumHeld(_)
SumHeld(cs) ==
  IF cs = {} THEN 0 ELSE LET c == CHOOSE x \in cs : TRUE IN Held(c) + SumHeld(cs \ {c})

Buffered(c) == SumHeld(StageOwners(c))

\* .pipe(): a full stage pauses the one before it, up to the socket's reads
Throttled(c) == Buffered(c) >= PipeCapacity

\* The client of connection c stops taking the responses written to it
ClientPause(c) ==
  /\ ~crashed
  /\ sock[c] \in {"open", "ended"}
  /\ reading[c]
  /\ reading' = [reading EXCEPT ![c] = FALSE]
  /\ UNCHANGED <<ctorVars, lifecycleVars, samples, crashed, connVars, outbuf, streamVars>>

\* It takes them again, and the socket's buffer drains
ClientResume(c) ==
  /\ ~crashed
  /\ sock[c] \in {"open", "ended"}
  /\ ~reading[c]
  /\ reading' = [reading EXCEPT ![c] = TRUE]
  /\ outbuf' = [outbuf EXCEPT ![c] = 0]
  /\ UNCHANGED <<ctorVars, lifecycleVars, samples, crashed, connVars, streamVars>>

\* A frame arrives on socket c and runs down the pipes: lps.decode(), the
\* decoder, and the handler, which calls the rate limiter
OnData(c) ==
  /\ ~crashed
  /\ sock[c] \in {"open", "ended"}
  /\ inbox[c] # <<>>
  /\ ~Throttled(c)
  /\ inbox' = [inbox EXCEPT ![c] = Tail(@)]
  /\ LET req == DecodeRequest(LpsDecode(Head(inbox[c]))) IN
       IF ~decoderPiped[c]
       THEN UNCHANGED <<sock, decoderPiped, inflight, log>>
       ELSE IF req.ok
       THEN /\ inflight' = [inflight EXCEPT ![c] =
                              Append(@, [id |-> req.id, st |-> "pending"])]
            /\ UNCHANGED <<sock, decoderPiped, log>>
       ELSE /\ decoderPiped' = [decoderPiped EXCEPT ![c] = FALSE]
            /\ log' = [log EXCEPT ![c] = @ \cup {"unknown message format"}]
            /\ sock' = [sock EXCEPT ![c] = OnDecoderError(@)]
            /\ UNCHANGED inflight
  /\ UNCHANGED <<streamVars, flowVars, ctorVars, lifecycleVars, samples, crashed, sentLog, completed,
                 written, proto>>

\* An 'error' of socket d (err) reaches the listener _handler registered, or,
\* had it registered none, kills the process; the socket is destroyed
SockAfterError(d) ==
  IF SocketErrorHandled
  THEN [sock EXCEPT ![d] = "closed"]
  ELSE [x \in Conns |-> IF sock[x] = "none" THEN "none" ELSE "closed"]

LogAfterError(d, err) ==
  IF SocketErrorHandled
  THEN [log EXCEPT ![d] = @ \cup OnSocketError(err).logs \cup {"connection closed"}]
  ELSE log

EmittedAfterError(err) ==
  IF SocketErrorHandled THEN emitted \o OnSocketError(err).emits ELSE emitted

\* socket.write of frames on socket d fails once socket.end() was called
WriteAfterEnd(d, frames) == frames # <<>> /\ sock[d] = "ended"

\* The rate limiter completes the decide call of request id of connection c;
\* the handler pushes the responses that are due, and they run down the pipes:
\* the writer, lps_encode() and the socket
Complete(c, id, ok) ==
  /\ ~crashed
  /\ \E i \in 1..Len(inflight[c]) :
       /\ inflight[c][i].id = id
       /\ inflight[c][i].st = "pending"
       /\ LET q      == [inflight[c] EXCEPT ![i].st = IF ok THEN "ok" ELSE "failed"]
              due    == DonePrefix(q)
              frames == IF WriterPiped THEN EncodeAll(due) ELSE <<>>
              d      == PipeDest(c)
          IN /\ inflight' = [inflight EXCEPT ![c] = SubSeq(q, Len(due) + 1, Len(q))]
             /\ written' = IF sock[d] = "open"
                           THEN [written EXCEPT ![d] = @ \o frames]
                           ELSE written
             /\ outbuf' = IF sock[d] = "open" /\ ~reading[d]
                          THEN [outbuf EXCEPT ![d] = @ + Len(frames)]
                          ELSE IF WriteAfterEnd(d, frames)
                          THEN [outbuf EXCEPT ![d] = 0]
                          ELSE outbuf
             /\ IF WriteAfterEnd(d, frames)
                THEN /\ sock' = SockAfterError(d)
                     /\ log' = LogAfterError(d, "write after end")
                     /\ emitted' = EmittedAfterError("write after end")
                     /\ crashed' = ~SocketErrorHandled
                     /\ AfterSocketClose(SockAfterError(d))
                ELSE UNCHANGED <<sock, log, emitted, crashed, closeTick>>
  /\ completed' = [completed EXCEPT ![c] = Append(@, [id |-> id, ok |-> ok])]
  /\ UNCHANGED <<streamVars, reading, ctorVars, handle, listeningCbs, closeCbs, starts, stopCalls, stopMark,
                 callbacks, samples, inbox, sentLog, decoderPiped, proto>>

\* The socket of connection c emits 'error' (a reset, say) and is destroyed
SocketError(c) ==
  /\ ~crashed
  /\ sock[c] \in {"open", "ended"}
  /\ sock' = SockAfterError(c)
  /\ log' = LogAfterError(c, "ECONNRESET")
  /\ emitted' = EmittedAfterError("ECONNRESET")
  /\ crashed' = ~SocketErrorHandled
  /\ inbox' = [inbox EXCEPT ![c] = <<>>]
  /\ outbuf' = [outbuf EXCEPT ![c] = 0]
  /\ AfterSocketClose(SockAfterError(c))
  /\ UNCHANGED <<streamVars, reading, ctorVars, handle, listeningCbs, closeCbs, starts, stopCalls, stopMark,
                 callbacks, samples, sentLog, decoderPiped, inflight,
                 completed, written, proto>>

\* The client of connection c closes it, having read what it wanted
ClientClose(c) ==
  /\ ~crashed
  /\ sock[c] \in {"open", "ended"}
  /\ inbox[c] = <<>>
  /\ sock' = [sock EXCEPT ![c] = "closed"]
  /\ log' = [log EXCEPT ![c] = @ \cup {"connection closed"}]
  /\ outbuf' = [outbuf EXCEPT ![c] = 0]
  /\ AfterSocketClose([sock EXCEPT ![c] = "closed"])
  /\ UNCHANGED <<streamVars, reading, ctorVars, handle, listeningCbs, closeCbs, starts, stopCalls, stopMark,
                 emitted, callbacks, samples, crashed, inbox, sentLog,
                 decoderPiped, inflight, completed, written, proto>>

\* ------------------------------------------------------------ specification
\* No byte stream is followed byte by byte
NoStream == stream = <<>> /\ wire = <<>> /\ lpsState = LpsInit /\ lpsOut = <<>>

NoProto == [decoder |-> Undefined, handler |-> Undefined, writer |-> Undefined]

Init ==
  /\ ctor = "none" /\ thrown = NoError /\ options = NoConfig /\ config = NoConfig
  /\ validatorCalls = 0 /\ validatorArg = NoConfig /\ configError = NoError
  /\ created = {}
  /\ handle = "none" /\ listeningCbs = <<>> /\ closeCbs = 0 /\ closeTick = FALSE
  /\ starts = <<>> /\ stopCalls = 0 /\ stopMark = [c \in Conns |-> 0] /\ emitted = <<>> /\ callbacks = <<>>
  /\ samples = 0 /\ crashed = FALSE
  /\ sock = [c \in Conns |-> "none"]
  /\ inbox = [c \in Conns |-> <<>>]
  /\ sentLog = [c \in Conns |-> <<>>]
  /\ decoderPiped = [c \in Conns |-> FALSE]
  /\ inflight = [c \in Conns |-> <<>>]
  /\ completed = [c \in Conns |-> <<>>]
  /\ written = [c \in Conns |-> <<>>]
  /\ log = [c \in Conns |-> {}]
  /\ proto = [c \in Conns |-> NoProto]
  /\ outbuf = [c \in Conns |-> 0]
  /\ reading = [c \in Conns |-> TRUE]
  /\ NoStream

Next ==
  \/ \E o \in OptionSets, v \in ValidatorVerdicts : Construct(o, v)
  \/ TimerTick
  \/ \E done \in BOOLEAN : Start(done)
  \/ ListenOk
  \/ ListenFail
  \/ Stop
  \/ EmitClose
  \/ \E c \in Conns : Accept(c)
  \/ \E c \in Conns, wf \in BOOLEAN : ClientSend(c, wf)
  \/ \E c \in Conns : OnData(c)
  \/ \E c \in Conns, id \in 1..MaxFrames, ok \in BOOLEAN : Complete(c, id, ok)
  \/ \E c \in Conns : SocketError(c)
  \/ \E c \in Conns : ClientClose(c)
  \/ \E c \in Conns : ClientPause(c)
  \/ \E c \in Conns : ClientResume(c)

Spec == Init /\ [][Next]_vars

\* The lifecycle of a server whose clients connect and send nothing
LifeNext ==
  \/ \E o \in OptionSets, v \in ValidatorVerdicts : Construct(o, v)
  \/ TimerTick
  \/ \E done \in BOOLEAN : Start(done)
  \/ ListenOk
  \/ ListenFail
  \/ Stop
  \/ EmitClose
  \/ \E c \in Conns : Accept(c)
  \/ \E c \in Conns : SocketError(c)
  \/ \E c \in Conns : ClientClose(c)

LifeSpec == Init /\ [][LifeNext]_vars

\* The connections of a server built with { db: '/db' } and started with a
\* callback, from the moment it listens
PipeConfig == Extend(defaults, Options("/db", Undefined, Undefined))

ListeningState ==
  /\ ctor = "ok" /\ thrown = NoError
  /\ options = Options("/db", Undefined, Undefined)
  /\ config = PipeConfig
  /\ validatorCalls = 1 /\ validatorArg = PipeConfig /\ configError = NoError
  /\ created = Collaborators(PipeConfig)
  /\ handle = "listening" /\ listeningCbs = <<>> /\ closeCbs = 0
  /\ closeTick = FALSE
  /\ starts = <<[done |-> TRUE, result |-> "ok"]>> /\ stopCalls = 0
  /\ stopMark = [c \in Conns |-> 0]
  /\ emitted = <<Event("started", NoError, Address(PipeConfig))>>
  /\ callbacks = <<[err |-> NoError, address |-> Address(PipeConfig)]>>
  /\ samples = 0 /\ crashed = FALSE
  /\ sock = [c \in Conns |-> "none"]
  /\ inbox = [c \in Conns |-> <<>>]
  /\ sentLog = [c \in Conns |-> <<>>]
  /\ decoderPiped = [c \in Conns |-> FALSE]
  /\ inflight = [c \in Conns |-> <<>>]
  /\ completed = [c \in Conns |-> <<>>]
  /\ written = [c \in Conns |-> <<>>]
  /\ log = [c \in Conns |-> {}]
  /\ proto = [c \in Conns |-> NoProto]
  /\ outbuf = [c \in Conns |-> 0]
  /\ reading = [c \in Conns |-> TRUE]

PipeInit == ListeningState /\ NoStream

PipeNext ==
  \/ \E c \in Conns : Accept(c)
  \/ \E c \in Conns, wf \in BOOLEAN : ClientSend(c, wf)
  \/ \E c \in Conns : OnData(c)
  \/ \E c \in Conns, id \in 1..MaxFrames, ok \in BOOLEAN : Complete(c, id, ok)
  \/ \E c \in Conns : SocketError(c)
  \/ \E c \in Conns : ClientClose(c)

PipeSpec == PipeInit /\ [][PipeNext]_vars

\* The rate limiter answers every call, and the event loop runs the callback
PipeFairness == \A c \in Conns : WF_vars(\E id \in 1..MaxFrames, ok \in BOOLEAN : Complete(c, id, ok))

PipeLiveSpec == PipeSpec /\ PipeFairness

\* The same server from its construction, started with a callback and never
\* stopped: its binds may fail, and its connections run
ConnInit ==
  /\ ctor = "ok" /\ thrown = NoError
  /\ options = Options("/db", Undefined, Undefined)
  /\ config = PipeConfig
  /\ validatorCalls = 1 /\ validatorArg = PipeConfig /\ configError = NoError
  /\ created = Collaborators(PipeConfig)
  /\ handle = "none" /\ listeningCbs = <<>> /\ closeCbs = 0 /\ closeTick = FALSE
  /\ starts = <<>> /\ stopCalls = 0 /\ stopMark = [c \in Conns |-> 0] /\ emitted = <<>> /\ callbacks = <<>>
  /\ samples = 0 /\ crashed = FALSE
  /\ sock = [c \in Conns |-> "none"]
  /\ inbox = [c \in Conns |-> <<>>]
  /\ sentLog = [c \in Conns |-> <<>>]
  /\ decoderPiped = [c \in Conns |-> FALSE]
  /\ inflight = [c \in Conns |-> <<>>]
  /\ completed = [c \in Conns |-> <<>>]
  /\ written = [c \in Conns |-> <<>>]
  /\ log = [c \in Conns |-> {}]
  /\ proto = [c \in Conns |-> NoProto]
  /\ outbuf = [c \in Conns |-> 0]
  /\ reading = [c \in Conns |-> TRUE]
  /\ NoStream

ConnNext ==
  \/ Start(TRUE)
  \/ ListenOk
  \/ ListenFail
  \/ \E c \in Conns : Accept(c)
  \/ \E c \in Conns, wf \in BOOLEAN : ClientSend(c, wf)
  \/ \E c \in Conns : OnData(c)
  \/ \E c \in Conns, id \in 1..MaxFrames, ok \in BOOLEAN : Complete(c, id, ok)
  \/ \E c \in Conns : SocketError(c)
  \/ \E c \in Conns : ClientClose(c)

ConnSpec == ConnInit /\ [][ConnNext]_vars

\* ------------------------------------------------------------------- claims
AllWellFormed(c) == \A i \in 1..Len(sentLog[c]) : sentLog[c][i]

Quiet(c) == sock[c] = "open" /\ inbox[c] = <<>> /\ inflight[c] = <<>>

\* the connection's own log shows an error, a bad frame or a close
OwnFault(c) ==
  log[c] \cap {"connection error", "unknown message format", "connection closed"} # {}

HasEvent(type) == \E i \in 1..Len(emitted) : emitted[i].type = type

\* C1: on a connection whose frames are all well-formed, the i-th frame
\* written answers the i-th request, never more frames are written than
\* requests were sent, and once every request is read and decided and the
\* socket is still open, exactly as many frames are written as were sent
C1_FifoResponses ==
  \A c \in Conns :
    AllWellFormed(c) =>
      /\ Len(written[c]) <= Len(sentLog[c])
      /\ \A i \in 1..Len(written[c]) :
           /\ written[c][i].payload[2] = i
           /\ written[c][i].len = Len(written[c][i].payload)
      /\ Quiet(c) => Len(written[c]) = Len(sentLog[c])

\* two requests decided in the reverse order, and answered in order
C1_Witness ==
  /\ AllWellFormed("A")
  /\ Len(completed["A"]) = 2
  /\ completed["A"][1].id = 2
  /\ Ids(written["A"]) = <<1, 2>>

\* C2: a connection whose first frame is malformed never gets a byte written,
\* none of its frames is handed to the rate limiter, and once the malformed
\* frame is read the server has ended or closed the socket
C2_MalformedFirstClosesSilently ==
  \A c \in Conns :
    (sentLog[c] # <<>> /\ ~sentLog[c][1]) =>
      /\ written[c] = <<>>
      /\ inflight[c] = <<>>
      /\ completed[c] = <<>>
      /\ Len(inbox[c]) < Len(sentLog[c]) => sock[c] \in {"ended", "closed"}

\* a malformed frame and two valid ones after it, all read, the socket ended
C2_Witness ==
  \E c \in Conns :
    /\ sentLog[c] = <<FALSE, TRUE, TRUE>>
    /\ inbox[c] = <<>>
    /\ sock[c] = "ended"
    /\ "unknown message format" \in log[c]

C4_OtherConnectionUnaffected ==
  \A b \in Conns :
    (sock[b] = "open" /\ inflight[b] # <<>>)
      ~> ((inflight[b] = <<>> /\ Len(written[b]) = Len(completed[b])) \/ OwnFault(b))

\* A's socket failed; B is up and has its answers
C4_Witness ==
  /\ "connection error" \in log["A"]
  /\ sock["B"] = "open"
  /\ ~OwnFault("B")
  /\ inflight["B"] = <<>>
  /\ Len(written["B"]) = 2

\* C5: a failed decide call reaches no server-level notification and does not
\* kill the process; every frame written answers a decided request, as an
\* error exactly when its call failed; and a connection without a fault of
\* its own has one frame written per decided request
C5_DispatchFailureIsOneResponse ==
  /\ ~crashed
  /\ ~HasEvent("error")
  /\ \A c \in Conns :
       /\ \A i \in 1..Len(written[c]) :
            \E j \in 1..Len(completed[c]) :
              /\ completed[c][j].id = written[c][i].payload[2]
              /\ (written[c][i].payload[3] = 1) <=> ~completed[c][j].ok
       /\ (~OwnFault(c) /\ inflight[c] = <<>>) => Len(written[c]) = Len(completed[c])

\* A's first call failed and its second did not; both are answered, B too
C5_Witness ==
  /\ \E j \in 1..Len(completed["A"]) :
       completed["A"][j].id = 1 /\ ~completed["A"][j].ok
  /\ Len(written["A"]) = 2
  /\ written["A"][1].payload = <<2, 1, 1>>
  /\ written["A"][2].payload = <<2, 2, 0>>
  /\ written["B"] # <<>>

\* C6: a start(done) whose bind failed has called done with the error and
\* emitted 'error', and the server is not listening
C6_BindFailureSurfaced ==
  (starts # <<>> /\ starts[Len(starts)].result = "fail") =>
    /\ handle # "listening"
    /\ HasEvent("error")
    /\ starts[Len(starts)].done =>
         \E j \in 1..Len(callbacks) : callbacks[j].err = "EADDRINUSE"

\* C7: once a started server has emitted 'close', no memory sample is reported
C7_NoSamplesAfterClose ==
  [][(HasEvent("started") /\ HasEvent("close")) => samples' = samples]_vars

\* C8: a server constructed without metrics_api_key has no sampling task and
\* reports no sample
C8_NoKeyNoTask ==
  ~Truthy(options.metrics_api_key) => ("timer" \notin created /\ samples = 0)

\* built without the key, started, stopped, and a connection was accepted
C8_Witness ==
  /\ ctor = "ok"
  /\ ~Truthy(options.metrics_api_key)
  /\ HasEvent("started")
  /\ HasEvent("close")
  /\ sock["A"] # "none"

\* C9: a construction whose options lack db threw '"db" is required', without
\* the validator having run and with nothing created
C9_MissingDbFailsFirst ==
  (ctor # "none" /\ ~Truthy(options.db)) =>
    /\ ctor = "threw"
    /\ thrown = "\"db\" is required"
    /\ validatorCalls = 0
    /\ created = {}
    /\ handle = "none"

\* options with a metrics key and no db
C9_Witness ==
  /\ ctor = "threw"
  /\ options.db = Undefined
  /\ options.metrics_api_key = "k"

\* C10: when the validator returned a message, the constructor threw that
\* message, the validator ran once, on the options merged over the defaults,
\* and nothing was created
C10_ValidatorRejectionFails ==
  configError # NoError =>
    /\ ctor = "threw"
    /\ thrown = configError
    /\ validatorCalls = 1
    /\ validatorArg.db = options.db
    /\ validatorArg.metrics_api_key = options.metrics_api_key
    /\ validatorArg.protocol =
         (IF options.protocol = Undefined THEN "protocol-buffers"
          ELSE options.protocol)
    /\ validatorArg.port = DefaultPort
    /\ validatorArg.hostname = "0.0.0.0"
    /\ created = {}
    /\ handle = "none"
    /\ samples = 0

\* rejected options that override the protocol and set the metrics key
C10_Witness ==
  /\ ctor = "threw"
  /\ configError = "invalid protocol"
  /\ options.protocol = "json"
  /\ options.metrics_api_key = "k"

\* The connections of a listening server that is stopped while they run;
\* their clients send well-formed frames only, and their sockets do not fail
StopNext ==
  \/ \E c \in Conns : Accept(c)
  \/ \E c \in Conns : ClientSend(c, TRUE)
  \/ \E c \in Conns : OnData(c)
  \/ \E c \in Conns, id \in 1..MaxFrames, ok \in BOOLEAN : Complete(c, id, ok)
  \/ \E c \in Conns : ClientClose(c)
  \/ Stop
  \/ EmitClose

StopSpec == PipeInit /\ [][StopNext]_vars

\* The event loop runs the deferred 'close' of this._server; nothing makes a
\* client close its connection
StopLiveSpec == StopSpec /\ WF_vars(EmitClose)

\* The deframer on its own: any sequence of frames, its bytes delivered to the
\* socket in chunks of any sizes
FramePayloads == {MalformedPayload} \cup {RequestPayload(id) : id \in 1..MaxFrames}

FrameInit ==
  /\ ListeningState
  /\ stream \in UNION {[1..n -> FramePayloads] : n \in 0..MaxFrames}
  /\ wire = WireBytes(stream)
  /\ lpsState = LpsInit
  /\ lpsOut = <<>>

FrameNext == \E n \in 1..Len(wire) : Segment(n)

FrameSpec == FrameInit /\ [][FrameNext]_vars

\* The pipelines of a listening server whose clients may stop taking their
\* responses
FlowNext ==
  \/ \E c \in Conns : Accept(c)
  \/ \E c \in Conns : ClientSend(c, TRUE)
  \/ \E c \in Conns : OnData(c)
  \/ \E c \in Conns, id \in 1..MaxFrames, ok \in BOOLEAN : Complete(c, id, ok)
  \/ \E c \in Conns : ClientPause(c)
  \/ \E c \in Conns : ClientResume(c)

FlowSpec == PipeInit /\ [][FlowNext]_vars

NumEvents(type) == Cardinality({i \in 1..Len(emitted) : emitted[i].type = type})

NumStarts(result) == Cardinality({i \in 1..Len(starts) : starts[i].result = result})

\* C11: there is one 'started' notification per successful bind and one
\* (null, address) call of done per successful start(done), all of them
\* carrying the address the server is configured to listen on
C11_OneStartedPerBind ==
  /\ NumEvents("started") = NumStarts("ok")
  /\ Len(callbacks)
       = Cardinality({i \in 1..Len(starts) : starts[i].result = "ok" /\ starts[i].done})
  /\ \A i \in 1..Len(emitted) :
       emitted[i].type = "started" => emitted[i].address = Address(config)
  /\ \A j \in 1..Len(callbacks) :
       callbacks[j].err = NoError /\ callbacks[j].address = Address(config)

\* C12: a connection is closed only by an event of its own, never by stop();
\* and on a server that was stopped, a connection still open whose requests
\* are all read and decided has every one of them answered, in order
C12_StopKeepsConnections ==
  \A c \in Conns :
    /\ sock[c] \in {"ended", "closed"} => OwnFault(c)
    /\ \A i \in 1..Len(written[c]) : written[c][i].payload[2] = i
    /\ (stopCalls > 0 /\ AllWellFormed(c) /\ Quiet(c))
         => Len(written[c]) = Len(sentLog[c])

\* A was open when stop() was called, sent a request after it, and has it answered
C12_Witness ==
  /\ stopCalls > 0
  /\ handle = "none"
  /\ sock["A"] = "open"
  /\ Len(sentLog["A"]) > stopMark["A"]
  /\ Len(written["A"]) = Len(sentLog["A"])

\* C13: once stop() was called, 'close' is eventually emitted, whatever the
\* accepted connections do, and only while the listening socket is closed
C13_CloseIndependentOfConnections ==
  /\ (stopCalls > 0) ~> HasEvent("close")
  /\ [][emitted' # emitted => handle = "none"]_vars

\* C13, amended: there are never more 'close' notifications than stop() calls,
\* one is emitted only while the listening socket is closed and no accepted
\* connection is left, and once stop() was called and no connection is left
\* every stop() call gets its 'close'
C13_CloseAfterDrain ==
  /\ [](NumEvents("close") <= stopCalls)
  /\ [][emitted' # emitted => (handle = "none" /\ Connections = {})]_vars
  /\ (stopCalls > 0 /\ Connections = {}) ~> (NumEvents("close") = stopCalls)

\* a connection was accepted and has closed; stop() has its 'close'
C13_Witness ==
  /\ stopCalls = 1
  /\ NumEvents("close") = 1
  /\ "connection accepted" \in log["A"]
  /\ sock["A"] = "closed"

\* the frames of a stream that lie wholly within its first n bytes
CompleteFrames(n) ==
  LET ks == {k \in 0..Len(stream) : Len(WireBytes(SubSeq(stream, 1, k))) <= n}
  IN  CHOOSE k \in ks : \A j \in ks : j <= k

ChosenProtocol ==
  IF options.protocol = Undefined THEN defaults.protocol ELSE options.protocol

\* C16: the protocol of a constructed server is the option it was given, or
\* the default; it never changes afterwards, and the decoder, the handler and
\* the writer of every accepted connection are built with it
C16_OneProtocolPerServer ==
  /\ [](ctor = "ok" => config.protocol = ChosenProtocol)
  /\ [](\A c \in Conns : sock[c] # "none" =>
          proto[c] = [stage \in {"decoder", "handler", "writer"} |-> ChosenProtocol])
  /\ [][ctor = "ok" => config' = config]_vars

\* a server constructed with protocol 'json' has accepted two connections,
\* one of them after a stop() and a second start()
C16_Witness ==
  /\ options.protocol = "json"
  /\ sock["A"] = "closed"
  /\ sock["B"] = "open"
  /\ stopCalls > 0

\* the frames connection c sent: well-formed ones, then one malformed frame
WellFormedThenMalformed(c) ==
  /\ Len(sentLog[c]) >= 2
  /\ ~sentLog[c][Len(sentLog[c])]
  /\ \A i \in 1..(Len(sentLog[c]) - 1) : sentLog[c][i]

\* C17: a connection that sent K well-formed frames and then a malformed one,
\* that was neither reset nor closed by its client, and whose K requests are
\* all decided, has the K responses written, in order
C17_ResponsesBeforeEnd ==
  \A c \in Conns :
    (/\ WellFormedThenMalformed(c)
     /\ "unknown message format" \in log[c]
     /\ inflight[c] = <<>>
     /\ "ECONNRESET" \notin log[c]
     /\ (sock[c] = "ended" \/ "write after end" \in log[c]))
      => Ids(written[c]) = [i \in 1..(Len(sentLog[c]) - 1) |-> i]

\* C18: the 'error' notifications are one per failed bind, each carrying the
\* bind's error
C18_OneErrorPerFailedBind ==
  /\ NumEvents("error") = NumStarts("fail")
  /\ \A i \in 1..Len(emitted) :
       emitted[i].type = "error" => emitted[i].err = "EADDRINUSE"
  /\ \A j \in 1..Len(callbacks) : callbacks[j].err = NoError

\* one start(done) whose bind failed, and its one 'error'
C18_Witness ==
  /\ Len(starts) = 1
  /\ starts[1].done
  /\ starts[1].result = "fail"
  /\ NumEvents("error") = 1

\* C19: every 'close' notification comes after a 'started' notification
C19_CloseOnlyAfterStarted ==
  \A i \in 1..Len(emitted) :
    emitted[i].type = "close" =>
      \E j \in 1..(i - 1) : emitted[j].type = "started"

====
